---- MODULE Spec2Model ----
(***************************************************************************)
(* Model of anagrams.py: the anagram finder.  The program is one           *)
(* sequential script; pc is its position.  Text is modelled as sequences   *)
(* of character codes, so lower(), isupper(), sorted() and cmp() are       *)
(* computed on characters as Python computes them.  The output buffer is   *)
(* the sequence of strings passed to write(), in order.  One iteration of  *)
(* a for loop is one step.  The banner and the printv() diagnostics are    *)
(* not part of the modelled text.                                          *)
(***************************************************************************)
EXTENDS Integers, Sequences, FiniteSets, TLC

\* ---------------------------------------------------------------- bounds
MaxWords == 4
MaxMinLetters == 3

\* ------------------------------------------------------- character codes
Evil == <<69, 118, 105, 108>>
Live == <<76, 105, 118, 101>>
w_a == <<97>>
w_ab == <<97, 98>>
w_ba == <<98, 97>>

\* tokens a word list may contain (split() never yields an empty token)
Tokens == {Evil, Live, w_a, w_ab, w_ba}

COMMA == <<44, 32>>
NL == <<10>>

VARIABLES pc, min_letters, ignore_capitals, exclude_capitals,
          output_filename, print_output, words, anagram_words, fi,
          outbuf, theword, newword, si, out, printed

vars == <<pc, min_letters, ignore_capitals, exclude_capitals,
          output_filename, print_output, words, anagram_words, fi,
          outbuf, theword, newword, si, out, printed>>

\* ------------------------------------------------------ string functions
IsUpper(c) == c \in 65..90

LowerChar(c) == IF c \in 65..90 THEN c + 32 ELSE c

Lower(s) == [k \in 1..Len(s) |-> LowerChar(s[k])]

\* cmp() of two strings: -1, 0 or 1 by the first differing character,
\* a proper prefix being the smaller
RECURSIVE Cmp(_, _)
Cmp(s, t) ==
    IF s = <<>> /\ t = <<>> THEN 0
    ELSE IF s = <<>> THEN -1
    ELSE IF t = <<>> THEN 1
    ELSE IF Head(s) < Head(t) THEN -1
    ELSE IF Head(s) > Head(t) THEN 1
    ELSE Cmp(Tail(s), Tail(t))

\* put character c after the last character of the sorted string s that
\* is not larger than c
RECURSIVE InsertChar(_, _)
InsertChar(s, c) ==
    IF s = <<>> THEN <<c>>
    ELSE IF s[Len(s)] <= c THEN Append(s, c)
    ELSE Append(InsertChar(SubSeq(s, 1, Len(s) - 1), c), s[Len(s)])

\* sorted(s), joined back into a string
RECURSIVE SortedChars(_)
SortedChars(s) ==
    IF s = <<>> THEN <<>>
    ELSE InsertChar(SortedChars(SubSeq(s, 1, Len(s) - 1)), s[Len(s)])

\* ---------------------------------------------------- class anagram_word
AnagramWord_nolower(word) ==
    [word |-> word, word_sorted |-> SortedChars(word), len |-> Len(word)]

AnagramWord(word) ==
    LET word_to_sort == IF ignore_capitals THEN Lower(word) ELSE word
    IN  [word |-> word,
         word_sorted |-> SortedChars(word_to_sort),
         len |-> Len(word)]

Str(w) == w.word

IsAnagramOf_prefix(self, other) ==
    /\ Len(other.word_sorted) <= Len(self.word_sorted)
    /\ SubSeq(self.word_sorted, 1, Len(other.word_sorted)) = other.word_sorted

IsAnagramOf(self, other) == self.word_sorted = other.word_sorted

Compare(word1, word2) == Cmp(word1.word_sorted, word2.word_sorted)

\* ------------------------------------------------------------ list.sort
\* variant: a word goes before the words that compare equal to it
RECURSIVE InsertWord_unstable(_, _)
InsertWord_unstable(s, w) ==
    IF s = <<>> THEN <<w>>
    ELSE IF Compare(s[Len(s)], w) < 0 THEN Append(s, w)
    ELSE Append(InsertWord_unstable(SubSeq(s, 1, Len(s) - 1), w), s[Len(s)])

\* list.sort(cmp=...) is a stable comparison sort: the result is the one
\* ordering by cmp in which equal elements keep their order.
RECURSIVE InsertWord(_, _)
InsertWord(s, w) ==
    IF s = <<>> THEN <<w>>
    ELSE IF Compare(s[Len(s)], w) <= 0 THEN Append(s, w)
    ELSE Append(InsertWord(SubSeq(s, 1, Len(s) - 1), w), s[Len(s)])

RECURSIVE SortWords(_)
SortWords(s) ==
    IF s = <<>> THEN <<>>
    ELSE InsertWord(SortWords(SubSeq(s, 1, Len(s) - 1)), s[Len(s)])

\* placeholder for theword before line 219 binds it
Unbound == [word |-> <<>>, word_sorted |-> <<>>, len |-> -1]

\* all word lists of at most MaxWords tokens
WordLists == UNION {[1..n -> Tokens] : n \in 0..MaxWords}

\* ------------------------------------------------------------------ Init
\* the state after the command line is parsed (lines 127-134)
Init ==
    /\ pc = "check_min"
    /\ min_letters \in 0..MaxMinLetters
    /\ ignore_capitals \in BOOLEAN
    /\ exclude_capitals \in BOOLEAN
    /\ output_filename \in {"None", "file"}
    /\ print_output \in BOOLEAN
    /\ words = <<>>
    /\ anagram_words = <<>>
    /\ fi = 0
    /\ outbuf = "None"
    /\ theword = Unbound
    /\ newword = FALSE
    /\ si = 0
    /\ out = <<>>
    /\ printed = <<>>

\* --------------------------------------------------------------- actions
\* lines 138-139
MinLettersTooSmall_lt1 == min_letters < 1

MinLettersTooSmall == min_letters < 2

CheckMinLetters ==
    /\ pc = "check_min"
    /\ pc' = IF MinLettersTooSmall THEN "failed" ELSE "check_output"
    /\ UNCHANGED <<min_letters, ignore_capitals, exclude_capitals,
                   output_filename, print_output, words, anagram_words, fi,
                   outbuf, theword, newword, si, out, printed>>

\* lines 143-153; whether the directory of the output file exists is the
\* file system's choice
CheckOutput ==
    /\ pc = "check_output"
    /\ IF output_filename # "None"
       THEN \E isdir \in BOOLEAN :
              /\ pc' = IF isdir THEN "find_wordlist" ELSE "failed"
              /\ UNCHANGED print_output
       ELSE /\ print_output' = TRUE
            /\ pc' = "find_wordlist"
    /\ UNCHANGED <<min_letters, ignore_capitals, exclude_capitals,
                   output_filename, words, anagram_words, fi,
                   outbuf, theword, newword, si, out, printed>>

\* lines 159-171; whether a word list file is found is the file system's
\* choice
FindWordlist ==
    /\ pc = "find_wordlist"
    /\ \E isfile \in BOOLEAN :
         pc' = IF isfile THEN "read" ELSE "failed"
    /\ UNCHANGED <<min_letters, ignore_capitals, exclude_capitals,
                   output_filename, print_output, words, anagram_words, fi,
                   outbuf, theword, newword, si, out, printed>>

\* lines 175-176
ReadWords ==
    /\ pc = "read"
    /\ \E ws \in WordLists : words' = ws
    /\ anagram_words' = <<>>
    /\ fi' = 1
    /\ pc' = "filter"
    /\ UNCHANGED <<min_letters, ignore_capitals, exclude_capitals,
                   output_filename, print_output,
                   outbuf, theword, newword, si, out, printed>>

\* lines 189 and 191: the two continue statements
Skipped_le(word) ==
    \/ Len(word) <= min_letters
    \/ exclude_capitals /\ IsUpper(word[1])

Skipped(word) ==
    \/ Len(word) < min_letters
    \/ exclude_capitals /\ IsUpper(word[1])

\* lines 187-194, one iteration
FilterStep ==
    /\ pc = "filter"
    /\ fi <= Len(words)
    /\ anagram_words' = IF Skipped(words[fi]) THEN anagram_words
                        ELSE Append(anagram_words, AnagramWord(words[fi]))
    /\ fi' = fi + 1
    /\ UNCHANGED <<pc, min_letters, ignore_capitals, exclude_capitals,
                   output_filename, print_output, words,
                   outbuf, theword, newword, si, out, printed>>

\* line 187 exhausted
FilterExit ==
    /\ pc = "filter"
    /\ fi > Len(words)
    /\ pc' = "sort"
    /\ UNCHANGED <<min_letters, ignore_capitals, exclude_capitals,
                   output_filename, print_output, words, anagram_words, fi,
                   outbuf, theword, newword, si, out, printed>>

\* line 200
Sort ==
    /\ pc = "sort"
    /\ anagram_words' = SortWords(anagram_words)
    /\ pc' = "open"
    /\ UNCHANGED <<min_letters, ignore_capitals, exclude_capitals,
                   output_filename, print_output, words, fi,
                   outbuf, theword, newword, si, out, printed>>

\* lines 211-220
OpenOutput ==
    /\ pc = "open"
    /\ outbuf' = IF output_filename # "None" THEN "file" ELSE "stdout"
    /\ out' = <<>>
    /\ theword' = AnagramWord(<<>>)
    /\ newword' = TRUE
    /\ si' = 1
    /\ pc' = "sweep"
    /\ UNCHANGED <<min_letters, ignore_capitals, exclude_capitals,
                   output_filename, print_output, words, anagram_words, fi,
                   printed>>

\* lines 225-238, the body of the output loop for one ang_word
SweepBody_singletons(ang_word) ==
    IF IsAnagramOf(ang_word, theword)
    THEN /\ out' = out \o <<COMMA, Str(ang_word)>>
         /\ newword' = FALSE
         /\ UNCHANGED theword
    ELSE /\ theword' = ang_word
         /\ out' = IF out # <<>> THEN out \o <<NL, Str(ang_word)>>
                   ELSE <<Str(ang_word)>>
         /\ newword' = TRUE

SweepBody_sorted(ang_word) ==
    IF IsAnagramOf(ang_word, theword)
    THEN /\ IF newword
            THEN /\ out' = out \o <<theword.word_sorted, COMMA,
                                     ang_word.word_sorted>>
                 /\ newword' = FALSE
            ELSE /\ out' = out \o <<COMMA, ang_word.word_sorted>>
                 /\ UNCHANGED newword
         /\ UNCHANGED theword
    ELSE /\ theword' = ang_word
         /\ out' = IF ~newword THEN Append(out, NL) ELSE out
         /\ newword' = TRUE

SweepBody_nobreak(ang_word) ==
    IF IsAnagramOf(ang_word, theword)
    THEN /\ IF newword
            THEN /\ out' = out \o <<Str(theword), COMMA, Str(ang_word)>>
                 /\ newword' = FALSE
            ELSE /\ out' = out \o <<COMMA, Str(ang_word)>>
                 /\ UNCHANGED newword
         /\ UNCHANGED theword
    ELSE /\ theword' = ang_word
         /\ out' = out
         /\ newword' = TRUE

SweepBody(ang_word) ==
    IF IsAnagramOf(ang_word, theword)
    THEN /\ IF newword
            THEN /\ out' = out \o <<Str(theword), COMMA, Str(ang_word)>>
                 /\ newword' = FALSE
            ELSE /\ out' = out \o <<COMMA, Str(ang_word)>>
                 /\ UNCHANGED newword
         /\ UNCHANGED theword
    ELSE /\ theword' = ang_word
         /\ out' = IF ~newword THEN Append(out, NL) ELSE out
         /\ newword' = TRUE

\* line 224, next element
SweepStep ==
    /\ pc = "sweep"
    /\ si <= Len(anagram_words)
    /\ SweepBody(anagram_words[si])
    /\ si' = si + 1
    /\ UNCHANGED <<pc, min_letters, ignore_capitals, exclude_capitals,
                   output_filename, print_output, words, anagram_words, fi,
                   outbuf, printed>>

\* line 224 exhausted: nothing is written when the loop ends
SweepExitOut_flush == out \o <<Str(theword), NL>>

SweepExitOut == out

SweepExit ==
    /\ pc = "sweep"
    /\ si > Len(anagram_words)
    /\ out' = SweepExitOut
    /\ pc' = "finish"
    /\ UNCHANGED <<min_letters, ignore_capitals, exclude_capitals,
                   output_filename, print_output, words, anagram_words, fi,
                   outbuf, theword, newword, si, printed>>

\* lines 242-250.  With a file, the buffer is echoed by print (which adds a
\* newline), followed by an empty print, and closed.  Without one, outbuf
\* is the standard output and print("\n") writes two newlines to it.
Finish ==
    /\ pc = "finish"
    /\ IF output_filename # "None"
       THEN /\ printed' = IF print_output THEN out \o <<NL, NL>> ELSE printed
            /\ outbuf' = "closed"
            /\ UNCHANGED out
       ELSE /\ out' = out \o <<NL, NL>>
            /\ UNCHANGED <<printed, outbuf>>
    /\ pc' = "done"
    /\ UNCHANGED <<min_letters, ignore_capitals, exclude_capitals,
                   output_filename, print_output, words, anagram_words, fi,
                   theword, newword, si>>

Next ==
    \/ CheckMinLetters
    \/ CheckOutput
    \/ FindWordlist
    \/ ReadWords
    \/ FilterStep
    \/ FilterExit
    \/ Sort
    \/ OpenOutput
    \/ SweepStep
    \/ SweepExit
    \/ Finish

Spec == Init /\ [][Next]_vars

\* ------------------------------------------- reading the written output
IsWordChunk(c) == c # COMMA /\ c # NL

\* positions of out at which an output line begins
LineStarts(o) ==
    {k \in 1..Len(o) : o[k] # NL /\ (k = 1 \/ o[k - 1] = NL)}

\* last position of the line that begins at s
LineEnd(o, s) ==
    CHOOSE e \in s..Len(o) :
        /\ \A k \in s..e : o[k] # NL
        /\ e = Len(o) \/ o[e + 1] = NL

\* the words of the line that begins at s, in the order written
LineWords(o, s) == SelectSeq(SubSeq(o, s, LineEnd(o, s)), IsWordChunk)

\* t1 and t2 occupy two different places of the line l
Together(l, t1, t2) ==
    \E a, b \in DOMAIN l : a # b /\ l[a] = t1 /\ l[b] = t2

Texts(aw) == [k \in 1..Len(aw) |-> aw[k].word]

RECURSIVE IsSubseq(_, _)
IsSubseq(a, b) ==
    IF a = <<>> THEN TRUE
    ELSE IF b = <<>> THEN FALSE
    ELSE IF Head(a) = Head(b) THEN IsSubseq(Tail(a), Tail(b))
    ELSE IsSubseq(a, Tail(b))

CountChar(s, c) == Cardinality({k \in DOMAIN s : s[k] = c})

\* the filtered words whose signature equals that of anagram_words[i]
SameSignature(i) ==
    {j \in DOMAIN anagram_words :
        anagram_words[j].word_sorted = anagram_words[i].word_sorted}

SweepEnded == pc = "finish"

C2_SameLineIffSameSignature ==
    SweepEnded =>
        /\ \A i, j \in DOMAIN anagram_words :
              i < j =>
                  ((anagram_words[i].word_sorted = anagram_words[j].word_sorted)
                   <=> \E s \in LineStarts(out) :
                          Together(LineWords(out, s), anagram_words[i].word,
                                   anagram_words[j].word))
        /\ \A s \in LineStarts(out) :
              \A i \in DOMAIN anagram_words :
                  anagram_words[i].word = LineWords(out, s)[1] =>
                      Len(LineWords(out, s)) = Cardinality(SameSignature(i))

C2_Witness ==
    /\ SweepEnded
    /\ Cardinality(LineStarts(out)) >= 2

\* ------------------------------------------------------------------- C3
\* C3 as stated: when the run is over, every line written to the output
\* sink ends with a newline, the last one included.
C3_EveryGroupTerminated ==
    pc = "done" =>
        \A s \in LineStarts(out) : LineEnd(out, s) < Len(out)

\* ------------------------------------------------------------------- C4
Kept(token) ==
    /\ Len(token) >= min_letters
    /\ ~(exclude_capitals /\ token[1] \in 65..90)

\* C4: the words filtered so far are the tokens read so far that are at
\* least min_letters long and not (exclude_capitals and capitalized), in
\* input order.
C4_FilterKeeps ==
    pc \in {"filter", "sort"} =>
        Texts(anagram_words) = SelectSeq(SubSeq(words, 1, fi - 1), Kept)

C4_Witness ==
    /\ pc = "sort"
    /\ exclude_capitals
    /\ \E k \in DOMAIN words : Len(words[k]) = min_letters /\ Kept(words[k])
    /\ \E k \in DOMAIN words : Len(words[k]) = min_letters - 1
    /\ \E k \in DOMAIN words :
          Len(words[k]) >= min_letters /\ words[k][1] \in 65..90

\* ------------------------------------------------------------------- C5
\* C5: with min_letters < 2 the run never gets past the check: no word
\* list is read, nothing is filtered, no output sink is opened and
\* nothing is written.
C5_MinLettersRejected ==
    min_letters < 2 =>
        /\ pc \in {"check_min", "failed"}
        /\ words = <<>>
        /\ anagram_words = <<>>
        /\ outbuf = "None"
        /\ out = <<>>
        /\ printed = <<>>

C5_Witness == pc = "failed" /\ min_letters = 1

\* ------------------------------------------------------------------- C6
IsAscending(s) == \A k \in 1..(Len(s) - 1) : s[k] <= s[k + 1]

IsPermutationOf(s, t) ==
    /\ Len(s) = Len(t)
    /\ \A k \in DOMAIN t : CountChar(s, t[k]) = CountChar(t, t[k])

CaseFolded(t) ==
    [k \in 1..Len(t) |-> IF t[k] \in 65..90 THEN t[k] + 32 ELSE t[k]]

FilteredEmpty ==
    pc \in {"open", "sweep", "finish"} /\ anagram_words = <<>>

\* C7: when the filtered list is empty, no step from the opening of the
\* output to the end of the sweep writes anything, and none of them and
\* neither the closing step raises an error.
C7_EmptyListWritesNothing ==
    [][FilteredEmpty =>
          /\ pc' # "failed"
          /\ pc' \in {"sweep", "finish"} => out' = <<>>
          /\ pc = "finish" => pc' = "done"]_vars

C7_Witness ==
    /\ SweepEnded
    /\ anagram_words = <<>>
    /\ words # <<>>

\* ------------------------------------------------------------------- C8
\* C8: after every iteration of the sweep, the written chunks are texts
\* of filtered words, ", " and newlines; the written words are, in
\* order, a subsequence of the words swept so far; ", " stands between
\* two words; the output does not begin with a newline and has no two
\* newlines in a row.
C8_OutputWellFormed ==
    pc \in {"sweep", "finish"} =>
        /\ \A k \in DOMAIN out :
              \/ out[k] \in {COMMA, NL}
              \/ \E i \in DOMAIN anagram_words : out[k] = anagram_words[i].word
        /\ IsSubseq(SelectSeq(out, IsWordChunk),
                    Texts(SubSeq(anagram_words, 1, si - 1)))
        /\ \A k \in DOMAIN out :
              out[k] = COMMA =>
                  /\ 1 < k /\ k < Len(out)
                  /\ IsWordChunk(out[k - 1])
                  /\ IsWordChunk(out[k + 1])
        /\ out # <<>> => out[1] # NL
        /\ \A k \in 1..(Len(out) - 1) : ~(out[k] = NL /\ out[k + 1] = NL)

C8_Witness ==
    /\ pc = "sweep"
    /\ si <= Len(anagram_words)
    /\ \E k \in DOMAIN out : out[k] = NL
    /\ \E k \in DOMAIN out : out[k] = COMMA

\* ------------------------------------------------------------------- C9
\* C9: no filtered word has the empty signature of the sentinel; once the
\* first filtered word is swept it is the current word of a new group
\* with nothing written; and the empty text is never written.
C9_SentinelMatchesNothing ==
    /\ \A i \in DOMAIN anagram_words : anagram_words[i].word_sorted # <<>>
    /\ (pc = "sweep" /\ si = 2) =>
          /\ theword = anagram_words[1]
          /\ newword
          /\ out = <<>>
    /\ \A k \in DOMAIN out : out[k] # <<>>
    /\ \A k \in DOMAIN printed : printed[k] # <<>>

C9_Witness == pc = "sweep" /\ si = 2 /\ min_letters >= 2

\* ------------------------------------------------------------------ C10
\* C10: when the sweep has ended, the words of every line are the kept
\* tokens of that signature in input order, and the lines follow each
\* other in strictly ascending order of signature.
C10_StableGroups ==
    SweepEnded =>
        /\ \A s \in LineStarts(out) :
              LET lw == LineWords(out, s)
              IN  lw = SelectSeq(words,
                           LAMBDA t : /\ Kept(t)
                                      /\ AnagramWord(t).word_sorted =
                                         AnagramWord(lw[1]).word_sorted)
        /\ \A s1, s2 \in LineStarts(out) :
              s1 < s2 =>
                  Cmp(AnagramWord(LineWords(out, s1)[1]).word_sorted,
                      AnagramWord(LineWords(out, s2)[1]).word_sorted) < 0

C10_Witness ==
    /\ SweepEnded
    /\ \E s \in LineStarts(out) : LineWords(out, s) = <<w_ba, w_ab>>

====
